---- MODULE Spec2Model ----
(***************************************************************************)
(* Li Code Review: the static analysis engine (analyzer.js) as a state     *)
(* machine.                                                                *)
(*                                                                         *)
(* Text is modelled at the level of lexemes: a line is a sequence of       *)
(* lexemes (short pieces of source text), a file content is a sequence of  *)
(* lexemes in which the lexeme NL is the line separator, and a position    *)
(* in a line (a regular expression's lastIndex) is the number of lexemes   *)
(* before it.  Every regular expression of the source is modelled by the   *)
(* set of places where it matches in lines built from the vocabulary       *)
(* Lexemes; a file path is the sequence of its dot-separated segments.     *)
(***************************************************************************)
EXTENDS Integers, Sequences, FiniteSets, TLC

VARIABLES
  lastIndex,  \* rule id -> rule.pattern.lastIndex, the scan position each
              \* global-flag pattern object retains between calls
  pc,         \* the caller's position: "idle", "called" or "returned"
  call,       \* the call in progress: the function and its arguments
  ret,        \* the value the last call returned; for run, which returns
              \* nothing, what the run has computed and sent so far
  before      \* lastIndex as it was when the last call was entered

vars == <<lastIndex, pc, call, ret, before>>

(***************************************************************************)
(* Bounds of the model.                                                    *)
(***************************************************************************)
MaxLines == 2    \* lines of a file content (specifications Spec, SpecFile)
MaxBlocks == 2   \* blocks of a long content (specification SpecLong)
MaxFiles == 2    \* file units of one analyzeDiff call
MaxHunkLines == 2  \* lines after the first hunk header of a file section

(***************************************************************************)
(* Vocabulary.                                                             *)
(***************************************************************************)
NL == "\n"

Whitespace == {" "}

CommentLeaders == {"//", "#", "/*", "*", "--", ";"}

Lexemes ==
  Whitespace \cup CommentLeaders \cup
  { "eval(", "x);", "x));", ") is dangerous", "const result = ",
    "console.log(", "hash(", "Math.random()", ");",
    "api_key = 'abcdefgh'", "TODO:", " rotate",
    "def f(a=[]", "):", "assert ", "x",
    "const x = 1 + 2;", "function f() {", " return 1; ", "}" }

\* lexemes whose last character is a word character (\w)
WordEnded == {"x", " rotate"}

\* lexemes matching /(?:token|secret|password|key|auth|session|nonce|salt|hash|crypto)/i
SecurityWords == {"hash(", "api_key = 'abcdefgh'"}

\* lexemes matching /(?:function|def|func|fn)\s+(\w+)/
FunctionStarts == {"function f() {", "def f(a=[]"}

\* path segments that contain the text "test"
TestSegments == {"test_app"}

Min(S) == CHOOSE x \in S : \A y \in S : x <= y

Range(s) == {s[i] : i \in 1..Len(s)}

Count(line, lexeme) == Cardinality({i \in 1..Len(line) : line[i] = lexeme})

(***************************************************************************)
(* String.prototype.split('\n') and Array.prototype.join('\n').            *)
(***************************************************************************)
\* Loops over long sequences are evaluated over an index range lo..hi that
\* is halved (first lo..mid, then mid+1..hi with the state the first half
\* left): the order of the iterations is the loop's.
Mid(lo, hi) == (lo + hi) \div 2

\* rest, evaluated once the value of first is known
After(first, rest) == IF first = first THEN rest ELSE rest

\* the lines of content[lo..hi]
RECURSIVE SplitRange(_, _, _)
SplitRange(content, lo, hi) ==
  IF lo > hi THEN << <<>> >>
  ELSE IF lo = hi
  THEN IF content[lo] = NL THEN << <<>>, <<>> >> ELSE << <<content[lo]>> >>
  ELSE
    LET l == SplitRange(content, lo, Mid(lo, hi))
        r == SplitRange(content, Mid(lo, hi) + 1, hi)
    IN SubSeq(l, 1, Len(l) - 1) \o << l[Len(l)] \o r[1] >> \o Tail(r)

Split(content) == SplitRange(content, 1, Len(content))

RECURSIVE JoinRange(_, _, _)
JoinRange(lines, lo, hi) ==
  IF lo = hi THEN lines[lo]
  ELSE JoinRange(lines, lo, Mid(lo, hi)) \o <<NL>> \o JoinRange(lines, Mid(lo, hi) + 1, hi)

Join(lines) == IF lines = <<>> THEN <<>> ELSE JoinRange(lines, 1, Len(lines))

(***************************************************************************)
(* The rule table.                                                         *)
(***************************************************************************)
SEVERITY == [info |-> 0, warning |-> 1, error |-> 2]

Rule(id, severity, languages, isBlockRule, hasContextFilter) ==
  [id |-> id, severity |-> severity, languages |-> languages,
   isBlockRule |-> isBlockRule, hasContextFilter |-> hasContextFilter]

rules ==
  << Rule("SEC001", "error", {"js", "ts", "py", "java", "go", "rb", "php"}, FALSE, FALSE),
     Rule("SEC002", "error", {"js", "ts", "py"}, FALSE, FALSE),
     Rule("SEC003", "error", {"*"}, FALSE, FALSE),
     Rule("SEC004", "error", {"js", "ts", "py", "go", "java", "rb", "php"}, FALSE, FALSE),
     Rule("SEC005", "error", {"js", "ts"}, FALSE, FALSE),
     Rule("SEC006", "error", {"js", "ts", "py", "rb", "php"}, FALSE, FALSE),
     Rule("SEC007", "warning", {"js", "ts"}, FALSE, TRUE),
     Rule("SEC008", "error", {"py", "js", "ts", "go", "java", "rb"}, FALSE, FALSE),
     Rule("BUG001", "warning", {"js", "ts"}, FALSE, TRUE),
     Rule("BUG002", "warning", {"js", "ts", "py", "java", "go", "c", "cpp"}, FALSE, FALSE),
     Rule("BUG003", "warning", {"js", "ts"}, FALSE, TRUE),
     Rule("BUG004", "warning", {"js", "ts", "java", "py"}, FALSE, FALSE),
     Rule("BUG005", "info", {"js", "ts"}, FALSE, TRUE),
     Rule("BUG006", "info", {"*"}, FALSE, FALSE),
     Rule("PERF001", "warning", {"js", "ts", "py", "rb", "java"}, FALSE, FALSE),
     Rule("PERF002", "warning", {"js", "ts"}, FALSE, TRUE),
     Rule("PERF003", "warning", {"js", "ts", "py"}, FALSE, FALSE),
     Rule("PERF004", "info", {"js", "ts", "py", "java"}, FALSE, FALSE),
     Rule("PY001", "error", {"py"}, FALSE, FALSE),
     Rule("PY002", "warning", {"py"}, FALSE, FALSE),
     Rule("PY003", "warning", {"py"}, FALSE, TRUE),
     Rule("GO001", "warning", {"go"}, FALSE, FALSE),
     Rule("GO002", "warning", {"go"}, FALSE, FALSE),
     Rule("REACT001", "warning", {"js", "ts", "jsx", "tsx"}, FALSE, FALSE),
     Rule("REACT002", "error", {"js", "ts", "jsx", "tsx"}, FALSE, FALSE),
     Rule("TS001", "info", {"ts", "tsx"}, FALSE, FALSE),
     Rule("TS002", "warning", {"ts", "tsx"}, FALSE, FALSE),
     Rule("GEN001", "info", {"*"}, FALSE, TRUE),
     Rule("GEN002", "info", {"*"}, TRUE, FALSE) >>

RuleIds == {rules[k].id : k \in 1..Len(rules)}

LineRuleIds == {rules[k].id : k \in {j \in 1..Len(rules) : ~rules[j].isBlockRule}}

RuleIndex(id) == CHOOSE k \in 1..Len(rules) : rules[k].id = id

RuleOf(id) == rules[RuleIndex(id)]

(***************************************************************************)
(* detectLanguage: the text after the last dot, lower-cased, looked up in  *)
(* the extension table; an extension the table lacks is its own tag.       *)
(***************************************************************************)
\* String.prototype.toLowerCase on the path segments of the model
LowerCase == [JS |-> "js", PY |-> "py", Makefile |-> "makefile", Hpp |-> "hpp", Md |-> "md"]

toLowerCase(s) == IF s \in DOMAIN LowerCase THEN LowerCase[s] ELSE s

ExtensionMap ==
  [js |-> "js", mjs |-> "js", cjs |-> "js", jsx |-> "jsx",
   ts |-> "ts", mts |-> "ts", cts |-> "ts", tsx |-> "tsx",
   py |-> "py", pyw |-> "py", go |-> "go", rs |-> "rust",
   java |-> "java", rb |-> "rb", php |-> "php",
   c |-> "c", h |-> "c",
   cpp |-> "cpp", cc |-> "cpp", cxx |-> "cpp", hpp |-> "cpp"]

\* map is an object literal: a key it lacks is looked up in Object.prototype.
\* The lower-case names Object.prototype has, and tokens for their values
\* (the function Object, the object Object.prototype), which are no strings.
ObjectPrototype ==
  ("constructor" :> "[Function: Object]") @@ ("__proto__" :> "[Object: null prototype] {}")

\* map[ext]: "" stands for undefined
MapLookup(ext) ==
  IF ext \in DOMAIN ExtensionMap THEN ExtensionMap[ext]
  ELSE IF ext \in DOMAIN ObjectPrototype THEN ObjectPrototype[ext]
  ELSE ""

detectLanguage(filepath) ==
  LET ext == toLowerCase(filepath[Len(filepath)])
  IN IF MapLookup(ext) # "" THEN MapLookup(ext) ELSE ext

(***************************************************************************)
(* The regular expressions of the rule table on lines of the vocabulary.   *)
(* PatternEnd(id, line, s) is the position at which the match of rule      *)
(* id's pattern that starts at position s ends, and 0 when the pattern     *)
(* does not match at s (no pattern of the table matches the empty text).   *)
(* A rule that is absent below has a pattern that matches nowhere in a     *)
(* line of the vocabulary.                                                 *)
(***************************************************************************)
\* the number of whitespace lexemes that follow position s
RECURSIVE SpaceRun(_, _)
SpaceRun(line, s) ==
  IF s < Len(line) /\ line[s + 1] \in Whitespace THEN 1 + SpaceRun(line, s + 1) ELSE 0

PatternEnd(id, line, s) ==
  LET lex == line[s + 1]
      one(hit) == IF hit THEN s + 1 ELSE 0
  IN CASE id = "SEC002" ->   \* /\beval\s*\(/g
            one(lex = "eval(" /\ (s = 0 \/ line[s] \notin WordEnded))
       [] id = "SEC003" ->   \* /(?:...|api_key|...)\s*[:=]\s*['"][^'"]{8,}['"]/gi
            one(lex = "api_key = 'abcdefgh'")
       [] id = "SEC007" ->   \* /Math\.random\s*\(\)/g
            one(lex = "Math.random()")
       [] id = "BUG005" ->   \* /console\.log\s*\(/g
            one(lex = "console.log(")
       [] id = "BUG006" ->   \* /\/\/\s*(?:TODO|FIXME|HACK|XXX|BUG|WORKAROUND)[\s:]/gi
            LET t == s + 1 + SpaceRun(line, s + 1)
            IN IF lex = "//" /\ t < Len(line) /\ line[t + 1] = "TODO:" THEN t + 1 ELSE 0
       [] id = "PY001" ->    \* /def\s+\w+\s*\([^)]*(?:=\s*\[\]|=\s*\{\}|=\s*set\(\))/g
            one(lex = "def f(a=[]")
       [] id = "PY003" ->    \* /^assert\s+/gm
            IF s = 0 /\ lex = "assert " THEN 1 + SpaceRun(line, 1) ELSE 0
       [] OTHER -> 0

\* a variant that matches at lastIndex only, as a sticky pattern does
RegexTestSticky(id, line, li) ==
  IF li < Len(line) /\ PatternEnd(id, line, li) > 0
  THEN [matched |-> TRUE, lastIndex |-> PatternEnd(id, line, li)]
  ELSE [matched |-> FALSE, lastIndex |-> 0]

\* RegExp.prototype.test of a global-flag pattern: the search starts at
\* lastIndex; a match leaves lastIndex at its end, a failure leaves 0.
RegexTest(id, line, li) ==
  LET starts == {s \in li..(Len(line) - 1) : PatternEnd(id, line, s) > 0}
  IN IF li > Len(line) \/ starts = {}
     THEN [matched |-> FALSE, lastIndex |-> 0]
     ELSE [matched |-> TRUE, lastIndex |-> PatternEnd(id, line, Min(starts))]

\* the path contains the text "test"
ContainsTest(filepath) == \E k \in 1..Len(filepath) : filepath[k] \in TestSegments

\* rule.contextFilter(line, filepath); a filter that is absent below tests
\* for text that no lexeme of the vocabulary contains, and lets a line pass
ContextFilter(id, line, filepath) ==
  CASE id = "SEC007" ->   \* /(?:token|...|key|...|hash|crypto)/i.test(line)
         \E k \in 1..Len(line) : line[k] \in SecurityWords
    [] id = "BUG005" ->   \* !/\/\/.*console|test|spec|debug/.test(line)
         ~(\E i, j \in 1..Len(line) : i < j /\ line[i] = "//" /\ line[j] = "console.log(")
    [] id = "PY003" ->    \* !/test/.test(filepath)
         ~ContainsTest(filepath)
    [] OTHER -> TRUE

\* a variant of the pattern without \s*: a leader only in the first column
IsCommentLineUnindented(line) == Len(line) > 0 /\ line[1] \in CommentLeaders

\* /^\s*(?:\/\/|#|\/\*|\*|--|;)/.test(line)
IsCommentLine(line) ==
  LET k == SpaceRun(line, 0)
  IN k < Len(line) /\ line[k + 1] \in CommentLeaders

(***************************************************************************)
(* GEN002, the block rule: rule.check(lines).                              *)
(***************************************************************************)
LongFunctionLimit == 50

\* line.match(/(?:function|def|func|fn)\s+(\w+)/)
FuncMatch(line) == \E k \in 1..Len(line) : line[k] \in FunctionStarts

\* funcMatch[1]: every function of the vocabulary is named f
FuncName(line) == "f"

\* (line.match(/{/g) || []).length and (line.match(/}/g) || []).length
OpenBraces(line) == Count(line, "function f() {")

CloseBraces(line) == Count(line, "}")

\* a variant that reports every closed function
TooLongAlways(length) == length > 0

TooLong(length) == length > LongFunctionLimit

\* one iteration of the loop of check, at index i (0-based); st holds the
\* locals funcStart, braceDepth and issues
CheckLine(lines, i, st) ==
  LET line == lines[i + 1]
      starts == FuncMatch(line) /\ st.funcStart = -1
      fs == IF starts THEN i ELSE st.funcStart
      d0 == IF starts THEN 0 ELSE st.braceDepth
  IN IF fs = -1 THEN st
     ELSE
       LET d == d0 + OpenBraces(line) - CloseBraces(line)
           closed == d <= 0 /\ i > fs
           length == i - fs
           issue == [line |-> fs + 1,
                     message |-> <<"Long Function", FuncName(lines[fs + 1]), length>>]
       IN [funcStart |-> IF closed THEN -1 ELSE fs,
           braceDepth |-> d,
           issues |-> IF closed /\ TooLong(length)
                      THEN Append(st.issues, issue) ELSE st.issues]

\* the iterations lo..hi of the loop of check
RECURSIVE CheckRange(_, _, _, _)
CheckRange(lines, lo, hi, st) ==
  IF lo > hi THEN st
  ELSE IF lo = hi THEN CheckLine(lines, lo, st)
  ELSE LET half == CheckRange(lines, lo, Mid(lo, hi), st)
       IN After(half, CheckRange(lines, Mid(lo, hi) + 1, hi, half))

check(lines) ==
  CheckRange(lines, 0, Len(lines) - 1,
             [funcStart |-> -1, braceDepth |-> 0, issues |-> <<>>]).issues

(***************************************************************************)
(* analyzeFile(filepath, content, minSeverity), entered with the retained  *)
(* scan positions li: the findings it returns and the scan positions it    *)
(* leaves.  A finding carries the rule's id and severity, the line and     *)
(* the message (the rule's fixed message for a line rule, stood for by the *)
(* rule id; name and suggestion are fixed by the rule id as well).         *)
(***************************************************************************)
\* a variant that falls back to the default floor 'warning'
MinSevOrDefault(minSeverity) ==
  IF minSeverity \in DOMAIN SEVERITY THEN SEVERITY[minSeverity] ELSE SEVERITY["warning"]

\* SEVERITY[minSeverity] || 0.  A name that SEVERITY inherits from
\* Object.prototype ('constructor') gives a function, which every later
\* comparison SEVERITY[rule.severity] < minSev turns into NaN: the comparison
\* is false for every rule, as it is with 0.
MinSev(minSeverity) ==
  IF minSeverity \in DOMAIN SEVERITY THEN SEVERITY[minSeverity] ELSE 0

\* a variant whose comparison lets the next lower severity through
SeverityTooLowByTwo(rule, minSev) == SEVERITY[rule.severity] + 1 < minSev

SeverityTooLow(rule, minSev) == SEVERITY[rule.severity] < minSev

LanguageExcluded(rule, lang) == "*" \notin rule.languages /\ lang \notin rule.languages

\* a variant that does not reset the scan position
KeepLastIndex(li) == li

\* rule.pattern.lastIndex = 0, before each test
ResetLastIndex(li) == 0

\* a variant with unshift in place of push
Unshift(issues, issue) == <<issue>> \o issues

\* issues.push(issue)
Push(issues, issue) == Append(issues, issue)

Finding(rule, line, message) ==
  [ruleId |-> rule.id, severity |-> rule.severity, line |-> line, message |-> message]

\* one iteration of the loop over the lines of a line rule, at index i
\* (0-based); st holds issues and rule.pattern.lastIndex
ScanLine(rule, lines, filepath, i, st) ==
  LET line == lines[i + 1] IN
  IF IsCommentLine(line) THEN st
  ELSE
    LET t == RegexTest(rule.id, line, ResetLastIndex(st.lastIndex))
        hit == /\ t.matched
               /\ ~(rule.hasContextFilter /\ ~ContextFilter(rule.id, line, filepath))
    IN [issues |-> IF hit THEN Push(st.issues, Finding(rule, i + 1, <<rule.id>>))
                   ELSE st.issues,
        lastIndex |-> t.lastIndex]

\* the iterations lo..hi of that loop
RECURSIVE ScanLines(_, _, _, _, _, _)
ScanLines(rule, lines, filepath, lo, hi, st) ==
  IF lo > hi THEN st
  ELSE IF lo = hi THEN ScanLine(rule, lines, filepath, lo, st)
  ELSE LET half == ScanLines(rule, lines, filepath, lo, Mid(lo, hi), st)
       IN After(half, ScanLines(rule, lines, filepath, Mid(lo, hi) + 1, hi, half))

\* the findings of check(lines), wrapped as findings of the block rule
RECURSIVE BlockIssues(_, _, _)
BlockIssues(rule, blockIssues, issues) ==
  IF blockIssues = <<>> THEN issues
  ELSE BlockIssues(rule, Tail(blockIssues),
                   Push(issues, Finding(rule, Head(blockIssues).line, Head(blockIssues).message)))

\* one iteration of the loop over the rule table, for rules[k]; st holds
\* issues and the scan positions of all patterns
ApplyRule(k, lines, filepath, lang, minSev, st) ==
  LET rule == rules[k] IN
  IF SeverityTooLow(rule, minSev) \/ LanguageExcluded(rule, lang) THEN st
  ELSE IF rule.isBlockRule
  THEN [issues |-> BlockIssues(rule, check(lines), st.issues), lastIndex |-> st.lastIndex]
  ELSE
    LET r == ScanLines(rule, lines, filepath, 0, Len(lines) - 1,
                       [issues |-> st.issues, lastIndex |-> st.lastIndex[rule.id]])
    IN [issues |-> r.issues,
        lastIndex |-> [st.lastIndex EXCEPT ![rule.id] = r.lastIndex]]

\* the iterations lo..hi of that loop
RECURSIVE ApplyRules(_, _, _, _, _, _, _)
ApplyRules(lo, hi, lines, filepath, lang, minSev, st) ==
  IF lo > hi THEN st
  ELSE IF lo = hi THEN ApplyRule(lo, lines, filepath, lang, minSev, st)
  ELSE LET half == ApplyRules(lo, Mid(lo, hi), lines, filepath, lang, minSev, st)
       IN After(half, ApplyRules(Mid(lo, hi) + 1, hi, lines, filepath, lang, minSev, half))

analyzeFile(filepath, content, minSeverity, li) ==
  ApplyRules(1, Len(rules), Split(content), filepath, detectLanguage(filepath),
             MinSev(minSeverity), [issues |-> <<>>, lastIndex |-> li])

(***************************************************************************)
(* analyzeDiff(files, minSeverity).  A file unit is a record of filepath,  *)
(* content and changedLines; hasChangedLines tells whether the unit        *)
(* carries the changedLines property at all.                               *)
(***************************************************************************)
EmptyPath == <<"">>

\* a variant that skips a unit for its content alone
SkippedContentOnly(file) == file.content = <<>>

\* !file.content || !file.filepath
Skipped(file) == file.content = <<>> \/ file.filepath = EmptyPath

\* file.changedLines && file.changedLines.length > 0
HasChangedLines(file) == file.hasChangedLines /\ Len(file.changedLines) > 0

\* a variant that filters nothing
FilteredKeepAll(issues, changedLines) == issues

\* issues.filter(i => changedSet.has(i.line))
Filtered(issues, changedLines) ==
  SelectSeq(issues, LAMBDA i : i.line \in Range(changedLines))

\* the loop over the file units
RECURSIVE DiffLoop(_, _, _, _)
DiffLoop(files, minSeverity, allIssues, li) ==
  IF files = <<>> THEN [allIssues |-> allIssues, lastIndex |-> li]
  ELSE
    LET file == Head(files) IN
    IF Skipped(file) THEN DiffLoop(Tail(files), minSeverity, allIssues, li)
    ELSE
      LET r == analyzeFile(file.filepath, file.content, minSeverity, li)
          issues == IF HasChangedLines(file)
                    THEN Filtered(r.issues, file.changedLines)
                    ELSE r.issues
      IN DiffLoop(Tail(files), minSeverity,
                  Append(allIssues, [filepath |-> file.filepath, issues |-> issues]),
                  r.lastIndex)

analyzeDiff(files, minSeverity, li) == DiffLoop(files, minSeverity, <<>>, li)

(***************************************************************************)
(* parseDiff(diffText) of the action.  A diff text is the sequence of its  *)
(* lines, a line the sequence of its lexemes; the line that opens a file   *)
(* section starts with the lexeme "diff --git ".  The markers of a hunk    *)
(* line are the lexemes "+", "-" and " "; the lexemes "++" and "--" are    *)
(* two markers written together.                                           *)
(***************************************************************************)
DiffGit == "diff --git "

\* lexemes whose first character is +, and lexemes whose first character is -
PlusLed == {"+", "++", "+ b/app.js", "+x;"}

MinusLed == {"-", "--", "- a/app.js", "- x"}

\* line.startsWith(prefix), for the prefixes parseDiff asks for
StartsWith(line, prefix) ==
  /\ Len(line) > 0
  /\ CASE prefix = "+" -> line[1] \in PlusLed
       [] prefix = "+++" ->
            line[1] = "++" /\ Len(line) > 1 /\ line[2] \in PlusLed
       [] prefix = "-" -> line[1] \in MinusLed
       [] prefix = "---" ->
            line[1] = "--" /\ Len(line) > 1 /\ line[2] \in MinusLed
       [] prefix = " " -> line[1] \in Whitespace
       [] prefix = "\\" -> line[1] = "\\ No newline at end of file"

\* line.substring(1), for a line that starts with a marker
Substring1(line) ==
  CASE line[1] = "++" -> <<"+">> \o Tail(line)
    [] line[1] = "--" -> <<"-">> \o Tail(line)
    [] OTHER -> Tail(line)

\* parseInt(hunkMatch[1], 10) for the hunk headers of the model, which match
\* /^@@\s*-\d+(?:,\d+)?\s*\+(\d+)(?:,\d+)?\s*@@/
HunkStart ==
  ("@@ -1,2 +1,3 @@" :> 1) @@ ("@@ -2,2 +2,3 @@" :> 2) @@ ("@@ -5,2 +5,3 @@" :> 5)

HunkMatch(line) == Len(line) > 0 /\ line[1] \in DOMAIN HunkStart

\* part.match(/b\/(.+?)(?:\n|$)/): the path after the first "b/" of the
\* section, <<>> when the section holds no "b/"
FileNames ==
  ("a/app.js b/app.js" :> <<"app", "js">>) @@ ("a/yarn.lock b/yarn.lock" :> <<"yarn", "lock">>)

FilenameMatch(part) ==
  LET named == {k \in 1..Len(part) :
                  Len(part[k]) > 0 /\ part[k][Len(part[k])] \in DOMAIN FileNames}
  IN IF named = {} THEN <<>>
     ELSE LET line == part[Min(named)] IN FileNames[line[Len(line)]]

\* the three tests that skip binary files, lockfiles and vendored paths
SkippedFile(filepath) == \E k \in 1..Len(filepath) : filepath[k] \in {"lock", "map", "png"}

\* diffText.split(/^diff --git /m).filter(Boolean): the file sections, each the
\* sequence of its lines as split('\n') gives them: a section that another
\* section follows ends with a line separator, so its last line is empty.
\* The diff text is given as split('\n') gives it as well.
RECURSIVE SplitParts(_, _, _)
SplitParts(text, parts, part) ==
  IF text = <<>> THEN SelectSeq(Append(parts, part), LAMBDA q : q # <<>> /\ q # <<<<>>>>)
  ELSE LET line == Head(text) IN
       IF Len(line) > 0 /\ line[1] = DiffGit
       THEN SplitParts(Tail(text),
                       Append(parts, IF part = <<>> THEN <<>> ELSE Append(part, <<>>)),
                       <<Tail(line)>>)
       ELSE SplitParts(Tail(text), parts, Append(part, line))

\* contentLines[index] = line, on a JavaScript array: an index past the end
\* leaves holes, which join('\n') writes as empty lines; the index -1 names
\* no element
SetAt(contentLines, index, line) ==
  IF index < 0 THEN contentLines
  ELSE [k \in 1..(IF index + 1 > Len(contentLines) THEN index + 1 ELSE Len(contentLines)) |->
          IF k = index + 1 THEN line
          ELSE IF k <= Len(contentLines) THEN contentLines[k] ELSE <<>>]

\* the branch of an added line
AddedLine(st, line) ==
  [currentLine |-> st.currentLine + 1,
   changedLines |-> Append(st.changedLines, st.currentLine),
   contentLines |-> SetAt(st.contentLines, st.currentLine - 1, Substring1(line))]

\* one iteration of the loop over the lines of a section; st holds
\* currentLine, changedLines and contentLines
ParseLine(st, line) ==
  IF HunkMatch(line) THEN [st EXCEPT !.currentLine = HunkStart[line[1]]]
  ELSE IF StartsWith(line, "+") /\ ~StartsWith(line, "+++") THEN AddedLine(st, line)
  ELSE IF StartsWith(line, "-") /\ ~StartsWith(line, "---") THEN st
  ELSE IF ~StartsWith(line, "\\")
  THEN [st EXCEPT !.currentLine = st.currentLine + 1,
                  !.contentLines =
                     SetAt(st.contentLines, st.currentLine - 1,
                           IF StartsWith(line, " ") THEN Substring1(line) ELSE line)]
  ELSE st

RECURSIVE ParseLines(_, _)
ParseLines(st, lines) ==
  IF lines = <<>> THEN st
  ELSE LET next == ParseLine(st, Head(lines))
       IN After(next, ParseLines(next, Tail(lines)))

\* the loop over the file sections
RECURSIVE ParseParts(_, _)
ParseParts(parts, files) ==
  IF parts = <<>> THEN files
  ELSE
    LET part == Head(parts)
        filepath == FilenameMatch(part)
        st == ParseLines([currentLine |-> 0, changedLines |-> <<>>, contentLines |-> <<>>],
                         part)
    IN IF filepath = <<>> \/ SkippedFile(filepath) THEN ParseParts(Tail(parts), files)
       ELSE IF Len(st.contentLines) > 0
       THEN ParseParts(Tail(parts),
                       Append(files, [filepath |-> filepath,
                                      content |-> Join(st.contentLines),
                                      hasChangedLines |-> TRUE,
                                      changedLines |-> st.changedLines]))
       ELSE ParseParts(Tail(parts), files)

parseDiff(diffText) == ParseParts(SplitParts(diffText, <<>>, <<>>), <<>>)

(***************************************************************************)
(* generateSummary(allResults).  The summary text is the sequence of its   *)
(* pieces: fixed texts, and the decimal digits of the interpolated counts. *)
(***************************************************************************)
Digits == <<"0", "1", "2", "3", "4", "5", "6", "7", "8", "9">>

\* Number -> String, as a template literal interpolates it
RECURSIVE Decimal(_)
Decimal(n) ==
  IF n < 10 THEN <<Digits[n + 1]>>
  ELSE Decimal(n \div 10) \o <<Digits[(n % 10) + 1]>>

NoIssuesText == "Li Code Review: No issues found. Code looks good!"

SummaryHead == "## Li Code Review Summary\n\nFound **"

ErrorMark == "- (red) **"

WarningMark == "- (yellow) **"

InfoMark == "- (blue) **"

SummaryFoot == "\n<sub>Li Code Review | Get a full audit</sub>"

Plural(n) == IF n = 1 THEN <<>> ELSE <<"s">>

\* all findings of all result records, in order
RECURSIVE AllIssues(_)
AllIssues(allResults) ==
  IF allResults = <<>> THEN <<>>
  ELSE Head(allResults).issues \o AllIssues(Tail(allResults))

\* the counting loop: totalIssues, errors, warnings, infos
RECURSIVE Tally(_, _)
Tally(issues, c) ==
  IF issues = <<>> THEN c
  ELSE
    LET sev == Head(issues).severity
    IN Tally(Tail(issues),
             [totalIssues |-> c.totalIssues + 1,
              errors |-> c.errors + (IF sev = "error" THEN 1 ELSE 0),
              warnings |-> c.warnings + (IF sev # "error" /\ sev = "warning" THEN 1 ELSE 0),
              infos |-> c.infos + (IF sev # "error" /\ sev # "warning" THEN 1 ELSE 0)])

\* a variant that looks at the error count alone
IsCleanOfErrors(c) == c.errors = 0

\* totalIssues === 0
IsClean(c) == c.totalIssues = 0

\* a variant that lists the warning bucket first
BucketLinesWarningFirst(c) ==
  (IF c.warnings > 0
   THEN <<WarningMark>> \o Decimal(c.warnings) \o <<"** warning">> \o Plural(c.warnings) \o <<NL>>
   ELSE <<>>)
  \o (IF c.errors > 0
      THEN <<ErrorMark>> \o Decimal(c.errors) \o <<"** error">> \o Plural(c.errors) \o <<NL>>
      ELSE <<>>)
  \o (IF c.infos > 0
      THEN <<InfoMark>> \o Decimal(c.infos) \o <<"** info">> \o Plural(c.infos) \o <<NL>>
      ELSE <<>>)

\* the bucket lines: errors, then warnings, then infos, each if > 0
BucketLines(c) ==
  (IF c.errors > 0
   THEN <<ErrorMark>> \o Decimal(c.errors) \o <<"** error">> \o Plural(c.errors) \o <<NL>>
   ELSE <<>>)
  \o (IF c.warnings > 0
      THEN <<WarningMark>> \o Decimal(c.warnings) \o <<"** warning">> \o Plural(c.warnings) \o <<NL>>
      ELSE <<>>)
  \o (IF c.infos > 0
      THEN <<InfoMark>> \o Decimal(c.infos) \o <<"** info">> \o Plural(c.infos) \o <<NL>>
      ELSE <<>>)

generateSummary(allResults) ==
  LET c == Tally(AllIssues(allResults),
                 [totalIssues |-> 0, errors |-> 0, warnings |-> 0, infos |-> 0])
  IN IF IsClean(c) THEN <<NoIssuesText>>
     ELSE <<SummaryHead>> \o Decimal(c.totalIssues) \o <<"** issue">>
          \o Plural(c.totalIssues) \o <<":\n">> \o BucketLines(c) \o <<SummaryFoot>>

(***************************************************************************)
(* Inputs: sample lines, contents, paths and severity floors.              *)
(***************************************************************************)
LEmpty == <<>>

LEvalTwice == <<"const result = ", "eval(", "eval(", "x));">>

LCommentEval == <<"//", " ", "eval(", ") is dangerous">>

LHashEval == <<" ", "#", " ", "eval(", "x);">>

LBlockSecret == <<"/*", " ", "api_key = 'abcdefgh'">>

LStarEval == <<"*", " ", "eval(", "x);">>

LDashEval == <<"--", " ", "eval(", "x);">>

LSemiEval == <<";", " ", "eval(", "x);">>

LConsole == <<"console.log(", "x);">>

LHashRandom == <<"hash(", "Math.random()", ");">>

LPlainRandom == <<"Math.random()", ";">>

LSecretTodo == <<"api_key = 'abcdefgh'", ";", " ", "//", " ", "TODO:", " rotate">>

LDef == <<"def f(a=[]", "):">>

LAssert == <<"assert ", "x">>

LEvalConsole == <<"eval(", "x);", " ", "//", " ", "console.log(", "x);">>

LFiller == <<"const x = 1 + 2;">>

LOpen == <<"function f() {">>

LClose == <<"}">>

LOneLiner == <<"function f() {", " return 1; ", "}">>

LCommentFn == <<"//", " ", "function f() {">>

SampleLines ==
  { LEmpty, LEvalTwice, LCommentEval, LHashEval, LBlockSecret, LStarEval,
    LDashEval, LSemiEval, LConsole, LHashRandom, LPlainRandom, LSecretTodo,
    LDef, LAssert, LEvalConsole }

FewLines == {LEmpty, LEvalTwice, LCommentEval, LHashRandom, LSecretTodo, LEvalConsole}

\* the sequences of 1..n elements of S
SeqsUpTo(S, n) == UNION {[1..m -> S] : m \in 1..n}

Contents(S) == {Join(ls) : ls \in SeqsUpTo(S, MaxLines)}

Repeat(x, n) == [i \in 1..n |-> x]

\* a function of n body lines, from its opening line to its closing brace
FunctionBlock(n) == <<LOpen, LEvalTwice>> \o Repeat(LFiller, n - 1) \o <<LClose>>

Blocks ==
  { <<LOneLiner>>, FunctionBlock(LongFunctionLimit - 1), FunctionBlock(LongFunctionLimit),
    <<LOpen>>, <<LEvalTwice, LSecretTodo>>, <<LCommentFn>>, <<LDef>>, <<LEmpty>> }

RECURSIVE Flatten(_)
Flatten(ss) == IF ss = <<>> THEN <<>> ELSE Head(ss) \o Flatten(Tail(ss))

LongContents == {Join(Flatten(bs)) : bs \in SeqsUpTo(Blocks, MaxBlocks)}

PathJs == <<"app", "js">>

PathUpperPy == <<"main", "PY">>

PathTestPy == <<"test_app", "py">>

PathRs == <<"lib", "rs">>

Paths == {PathJs, PathUpperPy, PathTestPy, PathRs}

Floors == {"info", "warning", "error"}

\* what a caller may pass as minSeverity: cli.js passes --severity unvalidated
FloorInputs == Floors \cup {"verbose"}

FileCall(filepath, content, minSeverity) ==
  [op |-> "analyzeFile", filepath |-> filepath, content |-> content,
   minSeverity |-> minSeverity]

DiffContents == {Join(<<LEvalTwice, LHashRandom>>), Join(<<LConsole>>), <<>>}

FileUnits ==
  { [filepath |-> f, content |-> c, hasChangedLines |-> h, changedLines |-> cl] :
      f \in {PathJs, EmptyPath}, c \in DiffContents,
      h \in BOOLEAN, cl \in {<<>>, <<1>>, <<2>>} }
  \ { u \in [filepath : {PathJs, EmptyPath}, content : DiffContents,
             hasChangedLines : {FALSE}, changedLines : {<<1>>, <<2>>}] : TRUE }

DiffCall(files, minSeverity) ==
  [op |-> "analyzeDiff", files |-> files, minSeverity |-> minSeverity]

NoCall == [op |-> "none"]

ZeroIndex == [id \in LineRuleIds |-> 0]

(***************************************************************************)
(* The state machine: a caller calls a function of the module, the         *)
(* function runs to completion, the caller takes the result.               *)
(***************************************************************************)
Init ==
  /\ lastIndex = ZeroIndex
  /\ pc = "idle"
  /\ call = NoCall
  /\ ret = <<>>
  /\ before = ZeroIndex

CallAnalyzeFile ==
  /\ pc = "idle"
  /\ \E filepath \in {PathJs, PathUpperPy}, content \in Contents(FewLines),
        minSeverity \in Floors :
       call' = FileCall(filepath, content, minSeverity)
  /\ pc' = "called"
  /\ UNCHANGED <<lastIndex, ret, before>>

AnalyzeFileStep ==
  /\ pc = "called"
  /\ call.op = "analyzeFile"
  /\ LET r == analyzeFile(call.filepath, call.content, call.minSeverity, lastIndex)
     IN /\ ret' = r.issues
        /\ lastIndex' = r.lastIndex
  /\ before' = lastIndex
  /\ pc' = "returned"
  /\ UNCHANGED call

AnalyzeDiffStep ==
  /\ pc = "called"
  /\ call.op = "analyzeDiff"
  /\ LET r == analyzeDiff(call.files, call.minSeverity, lastIndex)
     IN /\ ret' = r.allIssues
        /\ lastIndex' = r.lastIndex
  /\ before' = lastIndex
  /\ pc' = "returned"
  /\ UNCHANGED call

\* the caller hands the result records of analyzeDiff to generateSummary
CallGenerateSummary ==
  /\ pc = "returned"
  /\ call.op = "analyzeDiff"
  /\ call' = [op |-> "generateSummary", allResults |-> ret]
  /\ pc' = "called"
  /\ UNCHANGED <<lastIndex, ret, before>>

GenerateSummaryStep ==
  /\ pc = "called"
  /\ call.op = "generateSummary"
  /\ ret' = generateSummary(call.allResults)
  /\ before' = lastIndex
  /\ pc' = "returned"
  /\ UNCHANGED <<lastIndex, call>>

Return ==
  /\ pc = "returned"
  /\ pc' = "idle"
  /\ call' = NoCall
  /\ ret' = <<>>
  /\ before' = lastIndex
  /\ UNCHANGED lastIndex

Next == CallAnalyzeFile \/ AnalyzeFileStep \/ Return

\* analyzeFile called again and again: the rule table outlives the calls
Spec == Init /\ [][Next]_vars

\* one analyzeFile call on each input built from the sample lines
InitFile ==
  /\ lastIndex = ZeroIndex
  /\ pc = "called"
  /\ call \in {FileCall(f, c, m) : f \in Paths, c \in Contents(SampleLines), m \in FloorInputs}
  /\ ret = <<>>
  /\ before = ZeroIndex

NextFile == AnalyzeFileStep

SpecFile == InitFile /\ [][NextFile]_vars

\* one analyzeFile call on each content built from the blocks
InitLong ==
  /\ lastIndex = ZeroIndex
  /\ pc = "called"
  /\ call \in {FileCall(f, c, m) : f \in {PathJs, PathTestPy}, c \in LongContents,
                                   m \in {"info", "error"}}
  /\ ret = <<>>
  /\ before = ZeroIndex

NextLong == AnalyzeFileStep

SpecLong == InitLong /\ [][NextLong]_vars

\* one analyzeDiff call on each sequence of file units, then its summary
InitDiff ==
  /\ lastIndex = ZeroIndex
  /\ pc = "called"
  /\ call \in {DiffCall(fs, m) : fs \in {<<>>} \cup SeqsUpTo(FileUnits, MaxFiles), m \in Floors}
  /\ ret = <<>>
  /\ before = ZeroIndex

NextDiff == AnalyzeDiffStep \/ CallGenerateSummary \/ GenerateSummaryStep

SpecDiff == InitDiff /\ [][NextDiff]_vars

\* one analyzeFile call on each input built from the lines that the line
\* rules tell apart, at each floor a caller may pass
RuleLines == FewLines \cup {LPlainRandom, LAssert, LDef}

InitRule ==
  /\ lastIndex = ZeroIndex
  /\ pc = "called"
  /\ call \in {FileCall(f, c, m) : f \in {PathJs, PathUpperPy, PathTestPy},
                                   c \in Contents(RuleLines),
                                   m \in FloorInputs \cup {"constructor"}}
  /\ ret = <<>>
  /\ before = ZeroIndex

NextRule == AnalyzeFileStep

SpecRule == InitRule /\ [][NextRule]_vars

(***************************************************************************)
(* run() of the action.  The host (GitHub) answers each request of the     *)
(* run by accepting it or by rejecting it, which throws in the run.        *)
(***************************************************************************)
DefaultMaxComments == 20

DigitChars == <<"0", "1", "2", "3", "4", "5", "6", "7", "8", "9">>

\* the number the leading decimal digits of a text write, -1 if it has none
RECURSIVE DigitsValue(_, _)
DigitsValue(chars, acc) ==
  IF chars # <<>> /\ \E d \in 0..9 : DigitChars[d + 1] = Head(chars)
  THEN DigitsValue(Tail(chars),
                   10 * (IF acc < 0 THEN 0 ELSE acc)
                     + (CHOOSE d \in 0..9 : DigitChars[d + 1] = Head(chars)))
  ELSE acc

\* parseInt(text, 10): an optional sign and the leading digits; NaN when
\* there is no digit
ParseInt(chars) ==
  LET negative == chars # <<>> /\ Head(chars) = "-"
      signed == chars # <<>> /\ Head(chars) \in {"-", "+"}
      v == DigitsValue(IF signed THEN Tail(chars) ELSE chars, -1)
  IN IF v < 0 THEN [nan |-> TRUE, value |-> 0]
     ELSE [nan |-> FALSE, value |-> IF negative THEN 0 - v ELSE v]

\* parseInt(core.getInput('max-comments') || '20', 10)
MaxCommentsOf(input) == ParseInt(IF input = <<>> THEN <<"2", "0">> ELSE input)

\* core.getInput('severity') || 'warning'
SeverityOf(input) == IF input = "" THEN "warning" ELSE input

\* comments.length >= maxComments: false when maxComments is NaN
LimitReached(comments, maxComments) ==
  ~maxComments.nan /\ Len(comments) >= maxComments.value

\* formatReviewComment(issue): message, suggestion and rule id; the
\* suggestion is fixed by the rule id
formatReviewComment(issue) == <<issue.message, issue.ruleId>>

\* the inner loop of the comment construction, over the issues of a result
RECURSIVE CommentsOfIssues(_, _, _, _)
CommentsOfIssues(filepath, issues, maxComments, comments) ==
  IF issues = <<>> \/ LimitReached(comments, maxComments) THEN comments
  ELSE CommentsOfIssues(filepath, Tail(issues), maxComments,
                        Append(comments, [path |-> filepath, line |-> Head(issues).line,
                                          body |-> formatReviewComment(Head(issues))]))

\* the outer loop, over the results
RECURSIVE CommentsOf(_, _, _)
CommentsOf(results, maxComments, comments) ==
  IF results = <<>> THEN comments
  ELSE LET next == CommentsOfIssues(Head(results).filepath, Head(results).issues,
                                    maxComments, comments)
       IN After(next, CommentsOf(Tail(results), maxComments, next))

\* totalIssues
RECURSIVE TotalIssues(_)
TotalIssues(results) ==
  IF results = <<>> THEN 0 ELSE Len(Head(results).issues) + TotalIssues(Tail(results))

\* a variant that submits a review whatever the comment list holds
ShouldReviewAlways(comments) == TRUE

\* comments.length > 0
ShouldReview(comments) == Len(comments) > 0

\* totalIssues > 0 ? 'COMMENT' : 'APPROVE'
ReviewEvent(totalIssues) == IF totalIssues > 0 THEN "COMMENT" ELSE "APPROVE"

\* a variant whose catch block posts nothing
ReviewErrorIgnored == "outputs"

\* the catch block of createReview: where the run goes on
ReviewErrorHandler == "fallback"

\* the run before its first step
NoRun ==
  [results |-> <<>>, totalIssues |-> 0, comments |-> <<>>,
   reviews |-> <<>>, issueComments |-> <<>>,
   reviewRejected |-> FALSE, commentRejected |-> FALSE, failed |-> FALSE, outputs |-> FALSE]

\* the lines of a diff text
DHead == <<DiffGit, "a/app.js b/app.js">>

DLock == <<DiffGit, "a/yarn.lock b/yarn.lock">>

DIndex == <<"index 1a2b3c4..5d6e7f8 100644">>

DOld == <<"--", "- a/app.js">>

DNew == <<"++", "+ b/app.js">>

DNoNewline == <<"\\ No newline at end of file">>

\* the removed line '-- x' and the added line '++x;'
DRemovedComment == <<"--", "- x">>

DAddedIncrement == <<"++", "+x;">>

Added(text) == <<"+">> \o text

Removed(text) == <<"-">> \o text

Context(text) == <<" ">> \o text

LaterHunk == <<"@@ -5,2 +5,3 @@">>

BodyLines ==
  { Added(LEvalTwice), Added(LConsole), Added(LHashRandom), Removed(LEvalTwice),
    Context(LEvalTwice), Context(LFiller), DRemovedComment, DAddedIncrement,
    DNoNewline, LaterHunk }

\* the file section of app.js: its header lines, a first hunk header and the
\* lines after it
Sections ==
  { <<DHead, DIndex, DOld, DNew, <<h>>>> \o body :
      h \in {"@@ -1,2 +1,3 @@", "@@ -2,2 +2,3 @@"},
      body \in SeqsUpTo(BodyLines, MaxHunkLines) }

\* a diff text: the section of app.js, alone, with a final line separator,
\* or followed by the section of a lockfile; possibly after a preamble
DiffTexts ==
  { pre \o sec \o post :
      pre \in {<<>>, << <<"From 1a2b3c4">> >>},
      sec \in Sections,
      post \in {<<>>, << <<>> >>, <<DLock, DIndex, <<>>>>} }

\* one parseDiff call on each diff text
InitParse ==
  /\ lastIndex = ZeroIndex
  /\ pc = "called"
  /\ call \in {[op |-> "parseDiff", diffText |-> d] : d \in DiffTexts}
  /\ ret = <<>>
  /\ before = ZeroIndex

ParseDiffStep ==
  /\ pc = "called"
  /\ call.op = "parseDiff"
  /\ ret' = parseDiff(call.diffText)
  /\ pc' = "returned"
  /\ UNCHANGED <<lastIndex, call, before>>

NextParse == ParseDiffStep

SpecParse == InitParse /\ [][NextParse]_vars

\* the runs of the action: diff texts of the pull request, and the inputs
\* github-token, severity and max-comments
RunBodyLines ==
  { Added(LEvalTwice), Added(LConsole), Added(LFiller), Removed(LEvalTwice),
    Context(LEvalTwice), Context(LFiller) }

\* a hunk that adds one line more than the default max-comments, each line
\* with a finding
ManyAdded == [i \in 1..(DefaultMaxComments + 1) |-> Added(LEvalTwice)]

RunDiffTexts ==
  { <<DHead, DIndex, DOld, DNew, <<h>>>> \o body \o << <<>> >> :
      h \in {"@@ -1,2 +1,3 @@", "@@ -2,2 +2,3 @@"},
      body \in SeqsUpTo(RunBodyLines, MaxHunkLines) \cup {ManyAdded} }

MaxCommentsInputs ==
  { <<>>, <<"0">>, <<"1">>, <<"2", "x">>, <<"-", "1">>, <<"a", "b", "c">> }

RunCall(token, pullRequest, diffText, severity, maxComments) ==
  [op |-> "run", token |-> token, pullRequest |-> pullRequest, diffText |-> diffText,
   severity |-> severity, maxComments |-> maxComments]

RunCalls ==
  { RunCall(TRUE, TRUE, d, s, m) :
      d \in RunDiffTexts, s \in {"", "info"}, m \in MaxCommentsInputs }
    \cup { RunCall(t, p, <<>>, "", <<>>) : t \in BOOLEAN, p \in BOOLEAN }

InitRun ==
  /\ lastIndex = ZeroIndex
  /\ pc = "called"
  /\ call \in RunCalls
  /\ ret = NoRun
  /\ before = ZeroIndex

\* the checks of the token and of the event
RunStart ==
  /\ pc = "called"
  /\ call.op = "run"
  /\ IF ~call.token THEN ret' = [ret EXCEPT !.failed = TRUE] /\ pc' = "returned"
     ELSE IF ~call.pullRequest THEN ret' = ret /\ pc' = "returned"
     ELSE ret' = ret /\ pc' = "getDiff"
  /\ UNCHANGED <<lastIndex, call, before>>

\* pulls.get answers with the diff: parseDiff, analyzeDiff, the count of the
\* issues and the construction of the comments
Analyze ==
  /\ pc = "getDiff"
  /\ LET files == parseDiff(call.diffText)
         r == analyzeDiff(files, SeverityOf(call.severity), lastIndex)
     IN /\ ret' = [ret EXCEPT !.results = r.allIssues,
                              !.totalIssues = TotalIssues(r.allIssues),
                              !.comments = CommentsOf(r.allIssues,
                                                      MaxCommentsOf(call.maxComments), <<>>)]
        /\ lastIndex' = r.lastIndex
  /\ before' = lastIndex
  /\ pc' = "post"
  /\ UNCHANGED call

\* pulls.get is rejected: the outer catch marks the run failed
GetDiffRejected ==
  /\ pc = "getDiff"
  /\ ret' = [ret EXCEPT !.failed = TRUE]
  /\ pc' = "returned"
  /\ UNCHANGED <<lastIndex, call, before>>

\* pulls.createReview, accepted or rejected by the host
CreateReview ==
  /\ pc = "post"
  /\ ShouldReview(ret.comments)
  /\ \E accepted \in BOOLEAN :
       /\ ret' = [ret EXCEPT !.reviews =
                               Append(@, [event |-> ReviewEvent(ret.totalIssues),
                                          body |-> generateSummary(ret.results),
                                          comments |-> ret.comments]),
                             !.reviewRejected = ~accepted]
       /\ pc' = IF accepted THEN "outputs" ELSE ReviewErrorHandler
  /\ UNCHANGED <<lastIndex, call, before>>

\* issues.createComment, in the catch block of createReview and in the
\* branch of an empty comment list; a rejection reaches the outer catch
CreateComment ==
  /\ \/ pc = "fallback"
     \/ pc = "post" /\ ~ShouldReview(ret.comments)
  /\ \E accepted \in BOOLEAN :
       /\ ret' = [ret EXCEPT !.issueComments =
                               Append(@, [body |-> generateSummary(ret.results)]),
                             !.commentRejected = ~accepted,
                             !.failed = ~accepted]
       /\ pc' = IF accepted THEN "outputs" ELSE "returned"
  /\ UNCHANGED <<lastIndex, call, before>>

\* core.setOutput of issues-found and summary
SetOutputs ==
  /\ pc = "outputs"
  /\ ret' = [ret EXCEPT !.outputs = TRUE]
  /\ pc' = "returned"
  /\ UNCHANGED <<lastIndex, call, before>>

NextRun ==
  RunStart \/ Analyze \/ GetDiffRejected \/ CreateReview \/ CreateComment \/ SetOutputs

SpecRun == InitRun /\ [][NextRun]_vars

\* paths for detectLanguage: up to three dot-separated segments
LangNames == {"app", "Makefile", "index"}

LangExtensions ==
  DOMAIN ExtensionMap
    \cup {"JS", "PY", "Hpp", "Md", "md", "toml", "constructor", "__proto__", "", "Makefile"}

LangPaths ==
  {<<n>> : n \in LangNames}
    \cup {<<n, e>> : n \in LangNames, e \in LangExtensions}
    \cup {<<n, "min", e>> : n \in {"app"}, e \in LangExtensions}

\* one detectLanguage call on each path
InitLang ==
  /\ lastIndex = ZeroIndex
  /\ pc = "called"
  /\ call \in {[op |-> "detectLanguage", filepath |-> f] : f \in LangPaths}
  /\ ret = <<>>
  /\ before = ZeroIndex

DetectLanguageStep ==
  /\ pc = "called"
  /\ call.op = "detectLanguage"
  /\ ret' = detectLanguage(call.filepath)
  /\ pc' = "returned"
  /\ UNCHANGED <<lastIndex, call, before>>

NextLang == DetectLanguageStep

SpecLang == InitLang /\ [][NextLang]_vars

(***************************************************************************)
(* Claims.                                                                 *)
(***************************************************************************)
Returned(op) == pc = "returned" /\ call.op = op

CallLines == Split(call.content)

HasFinding(ruleId, line) ==
  \E k \in 1..Len(ret) : ret[k].ruleId = ruleId /\ ret[k].line = line

\* C1: every finding analyzeFile returns for a floor in {info, warning,
\* error} belongs to a rule whose severity is at least the floor and whose
\* language set holds the language detected from the path, or '*'.
C1_FloorAndLanguage ==
  (Returned("analyzeFile") /\ call.minSeverity \in Floors) =>
    \A k \in 1..Len(ret) :
      LET rule == RuleOf(ret[k].ruleId) IN
        /\ ret[k].severity = rule.severity
        /\ SEVERITY[rule.severity] >= SEVERITY[call.minSeverity]
        /\ \/ detectLanguage(call.filepath) \in rule.languages
           \/ "*" \in rule.languages

\* a Python file at floor warning: the error rule SEC003 reports the secret,
\* the floor drops the info rule BUG006 and the language drops SEC007
C1_Witness ==
  /\ Returned("analyzeFile")
  /\ call.filepath = PathUpperPy
  /\ call.minSeverity = "warning"
  /\ CallLines = <<LSecretTodo, LHashRandom>>
  /\ HasFinding("SEC003", 1)

\* a comment line as the claim describes it: optional leading whitespace,
\* then one of the six leaders
ClaimedComment(line) ==
  \E k \in 1..Len(line) :
    /\ line[k] \in {"//", "#", "/*", "*", "--", ";"}
    /\ \A j \in 1..(k - 1) : line[j] = " "

\* C2: analyzeFile emits no line-rule finding on a line classified as a
\* comment, whatever the line holds.
C2_NoFindingOnComment ==
  Returned("analyzeFile") =>
    \A k \in 1..Len(ret) :
      ~RuleOf(ret[k].ruleId).isBlockRule => ~ClaimedComment(CallLines[ret[k].line])

\* an indented # comment holding eval( above a code line holding eval(
C2_Witness ==
  /\ Returned("analyzeFile")
  /\ call.filepath = PathJs
  /\ CallLines = <<LHashEval, LEvalTwice>>
  /\ HasFinding("SEC002", 2)

\* C3: the findings are grouped by rule in the rule table's order, and
\* within a rule in strictly ascending line number.
C3_RuleThenLineOrder ==
  Returned("analyzeFile") =>
    \A i, j \in 1..Len(ret) :
      i < j =>
        \/ RuleIndex(ret[i].ruleId) < RuleIndex(ret[j].ruleId)
        \/ ret[i].ruleId = ret[j].ruleId /\ ret[i].line < ret[j].line

\* two long functions, each holding an eval: two SEC002 findings, then two
\* GEN002 findings with smaller line numbers
C3_Witness ==
  /\ Returned("analyzeFile")
  /\ \E i, j, k, l \in 1..Len(ret) :
       /\ i < j /\ j < k /\ k < l
       /\ ret[i].ruleId = "SEC002" /\ ret[j].ruleId = "SEC002"
       /\ ret[k].ruleId = "GEN002" /\ ret[l].ruleId = "GEN002"
       /\ ret[k].line < ret[j].line

\* C4: whatever calls came before, a call returns the findings that a first
\* call with the same arguments returns.
C4_SameAsFirstCall ==
  Returned("analyzeFile") =>
    ret = analyzeFile(call.filepath, call.content, call.minSeverity, ZeroIndex).issues

\* a call entered with a retained scan position of a rule that then reports
C4_Witness ==
  /\ Returned("analyzeFile")
  /\ \E k \in 1..Len(ret) : before[ret[k].ruleId] > 0

\* the input units analyzeDiff does not skip: content and path both non-empty
KeptUnits ==
  SelectSeq(call.files, LAMBDA f : f.content # <<>> /\ f.filepath # EmptyPath)

\* C5: for a file unit with a non-empty changed-line set, every finding of
\* its result record has a line number in that set.
C5_OnlyChangedLines ==
  Returned("analyzeDiff") =>
    /\ Len(ret) = Len(KeptUnits)
    /\ \A k \in 1..Len(ret) :
         (KeptUnits[k].hasChangedLines /\ KeptUnits[k].changedLines # <<>>) =>
           \A n \in 1..Len(ret[k].issues) :
             \E m \in 1..Len(KeptUnits[k].changedLines) :
               ret[k].issues[n].line = KeptUnits[k].changedLines[m]

\* a unit with findings on lines 1 and 2 and the changed-line set {2}: the
\* record keeps a finding of line 2 and none of line 1
C5_Witness ==
  /\ Returned("analyzeDiff")
  /\ call.minSeverity = "info"
  /\ \E k \in 1..Len(ret) :
       /\ KeptUnits[k].content = Join(<<LEvalTwice, LHashRandom>>)
       /\ KeptUnits[k].hasChangedLines
       /\ KeptUnits[k].changedLines = <<2>>
       /\ ret[k].issues # <<>>
       /\ \A n \in 1..Len(ret[k].issues) : ret[k].issues[n].line = 2

FindingSlots ==
  UNION {{<<k, n>> : n \in 1..Len(call.allResults[k].issues)} :
           k \in 1..Len(call.allResults)}

TotalFindings == Cardinality(FindingSlots)

CountOf(severity) ==
  Cardinality({p \in FindingSlots :
                 call.allResults[p[1]].issues[p[2]].severity = severity})

\* the pieces of the summary from position i on that are digits
RECURSIVE DigitRun(_, _)
DigitRun(text, i) ==
  IF i <= Len(text) /\ text[i] \in Range(Digits)
  THEN <<text[i]>> \o DigitRun(text, i + 1)
  ELSE <<>>

\* the first position of a piece in the summary, 0 if it is not there
Position(text, piece) ==
  IF piece \in Range(text) THEN Min({i \in 1..Len(text) : text[i] = piece}) ELSE 0

\* the number a run of digits writes
RECURSIVE Value(_)
Value(ds) ==
  IF ds = <<>> THEN 0
  ELSE 10 * Value(SubSeq(ds, 1, Len(ds) - 1))
       + CHOOSE d \in 0..9 : Digits[d + 1] = ds[Len(ds)]

\* the count the summary shows after a piece
Shown(text, piece) == Value(DigitRun(text, Position(text, piece) + 1))

\* C7: the summary is the 'No issues found' message exactly when the result
\* records hold no finding; when they hold N > 0 findings the summary does
\* not hold that message and holds the decimal count N.
C7_NoIssuesIffZero ==
  Returned("generateSummary") =>
    /\ (ret = <<NoIssuesText>>) <=> (TotalFindings = 0)
    /\ TotalFindings > 0 =>
         /\ NoIssuesText \notin Range(ret)
         /\ \E i \in 1..Len(ret) :
              /\ DigitRun(ret, i) # <<>>
              /\ Value(DigitRun(ret, i)) = TotalFindings

\* two result records, the first without findings, the second with some, all
\* of them of severity info
C7_Witness ==
  /\ Returned("generateSummary")
  /\ Len(call.allResults) = 2
  /\ call.allResults[1].issues = <<>>
  /\ call.allResults[2].issues # <<>>
  /\ CountOf("error") = 0
  /\ NoIssuesText \notin Range(ret)

\* C8: for a non-zero total the summary has one line per severity bucket with
\* a count > 0 and none for a bucket with count 0, in the order error,
\* warning, info; each line shows the number of findings of its severity,
\* and the three counts add up to the total the summary reports.
C8_BucketLines ==
  (Returned("generateSummary") /\ TotalFindings > 0) =>
    LET e == CountOf("error")
        w == CountOf("warning")
        i == CountOf("info")
        pe == Position(ret, ErrorMark)
        pw == Position(ret, WarningMark)
        pi == Position(ret, InfoMark)
    IN /\ (pe > 0) <=> (e > 0)
       /\ (pw > 0) <=> (w > 0)
       /\ (pi > 0) <=> (i > 0)
       /\ Cardinality({k \in 1..Len(ret) : ret[k] = ErrorMark}) <= 1
       /\ Cardinality({k \in 1..Len(ret) : ret[k] = WarningMark}) <= 1
       /\ Cardinality({k \in 1..Len(ret) : ret[k] = InfoMark}) <= 1
       /\ (pe > 0 /\ pw > 0) => pe < pw
       /\ (pw > 0 /\ pi > 0) => pw < pi
       /\ (pe > 0 /\ pi > 0) => pe < pi
       /\ pe > 0 => Shown(ret, ErrorMark) = e
       /\ pw > 0 => Shown(ret, WarningMark) = w
       /\ pi > 0 => Shown(ret, InfoMark) = i
       /\ Shown(ret, SummaryHead) = e + w + i

\* findings of all three severities in two records: three bucket lines
C8_Witness ==
  /\ Returned("generateSummary")
  /\ Len(call.allResults) = 2
  /\ CountOf("error") > 0
  /\ CountOf("warning") > 0
  /\ CountOf("info") > 0
  /\ Position(ret, ErrorMark) > 0
  /\ Position(ret, InfoMark) > Position(ret, WarningMark)

\* a line that holds a function-start keyword and a name
StartsFunction(line) ==
  \E k \in 1..Len(line) : line[k] \in {"function f() {", "def f(a=[]"}

\* the braces that open, less the braces that close, on the lines s..e
Balance(lines, s, e) ==
  Cardinality({p \in (s..e) \X (1..3) :
                 p[2] <= Len(lines[p[1]]) /\ lines[p[1]][p[2]] = "function f() {"})
  - Cardinality({p \in (s..e) \X (1..3) :
                   p[2] <= Len(lines[p[1]]) /\ lines[p[1]][p[2]] = "}"})

\* the lines that close the braces opened from line s on
ClosingLines(lines, s) ==
  {e \in s..Len(lines) :
     /\ Balance(lines, s, e) <= 0
     /\ \E i \in s..e : "function f() {" \in Range(lines[i])}

\* the functions whose span, from the line of the function-start keyword to
\* the line of the matching closing brace, is more than 50 lines
LongFunctions(lines) ==
  {s \in 1..Len(lines) :
     /\ StartsFunction(lines[s])
     /\ ClosingLines(lines, s) # {}
     /\ Min(ClosingLines(lines, s)) - s > 50}

ReportedFunctions == {ret[k].line : k \in {j \in 1..Len(ret) : ret[j].ruleId = "GEN002"}}

\* C9 as stated: GEN002 reports a function exactly when the span from the
\* line of its function-start keyword to the line of its matching closing
\* brace is more than 50 lines; a function of 50 lines or fewer is never
\* reported, one-line functions followed by other functions included.
C9_ReportsExactlyLongFunctions ==
  (Returned("analyzeFile") /\ call.minSeverity = "info") =>
    ReportedFunctions = LongFunctions(CallLines)

\* C10: for a content that does not end with a line separator, the content
\* with a final line separator added yields the same findings, line rules
\* and block rule alike; the empty content yields no finding.
C10_FinalSeparatorAddsNothing ==
  (Returned("analyzeFile")
     /\ (call.content = <<>> \/ call.content[Len(call.content)] # NL)) =>
    /\ analyzeFile(call.filepath, call.content \o <<NL>>, call.minSeverity,
                   ZeroIndex).issues = ret
    /\ call.content = <<>> => ret = <<>>

\* a content without a final line separator that ends with the closing
\* brace of a long function: a line-rule finding and a GEN002 finding
C10_Witness ==
  /\ Returned("analyzeFile")
  /\ call.content # <<>>
  /\ call.content[Len(call.content)] = "}"
  /\ Len(Split(call.content \o <<NL>>)) = Len(CallLines) + 1
  /\ \E k \in 1..Len(ret) : ret[k].ruleId = "GEN002"
  /\ \E k \in 1..Len(ret) : ret[k].ruleId = "SEC002"

\* the extension table as the documentation lists it
ListedTags ==
  [e \in {"js", "mjs", "cjs"} |-> "js"] @@ [e \in {"ts", "mts", "cts"} |-> "ts"]
    @@ [e \in {"py", "pyw"} |-> "py"] @@ [e \in {"c", "h"} |-> "c"]
    @@ [e \in {"cpp", "cc", "cxx", "hpp"} |-> "cpp"]
    @@ ("jsx" :> "jsx") @@ ("tsx" :> "tsx") @@ ("go" :> "go") @@ ("rs" :> "rust")
    @@ ("java" :> "java") @@ ("rb" :> "rb") @@ ("php" :> "php")

\* the lower-cased text after the last dot of the path of the call
LowerCasedExtension ==
  LET last == call.filepath[Len(call.filepath)]
  IN CASE last = "JS" -> "js" [] last = "PY" -> "py" [] last = "Hpp" -> "hpp"
       [] last = "Md" -> "md" [] last = "Makefile" -> "makefile" [] OTHER -> last

\* C11 as stated: detectLanguage returns the tag the extension table gives
\* the lower-cased text after the last dot, and for an extension the table
\* lacks the lower-cased extension itself.
C11_TagOfExtension ==
  Returned("detectLanguage") =>
    ret = IF LowerCasedExtension \in DOMAIN ListedTags
          THEN ListedTags[LowerCasedExtension]
          ELSE LowerCasedExtension

\* the number of findings of a rule at a line in the result
FindingsAt(ruleId, line) ==
  Cardinality({k \in 1..Len(ret) : ret[k].ruleId = ruleId /\ ret[k].line = line})

\* the conditions under which a line rule reports a line
Reportable(ruleId, i) ==
  LET rule == RuleOf(ruleId)
      line == CallLines[i]
  IN /\ SEVERITY[rule.severity] >= SEVERITY[call.minSeverity]
     /\ (detectLanguage(call.filepath) \in rule.languages \/ "*" \in rule.languages)
     /\ ~ClaimedComment(line)
     /\ \E s \in 0..(Len(line) - 1) : PatternEnd(ruleId, line, s) > 0
     /\ (rule.hasContextFilter => ContextFilter(ruleId, line, call.filepath))

\* C15: for every line rule r and line i, analyzeFile emits exactly one
\* finding for (r, i) when r passes the floor and the language test, line i
\* is no comment, r's pattern matches line i at least once and r's context
\* filter, if it has one, accepts the line; otherwise it emits none.
C15_OneFindingPerRuleAndLine ==
  (Returned("analyzeFile") /\ call.minSeverity \in Floors) =>
    \A ruleId \in LineRuleIds : \A i \in 1..Len(CallLines) :
      FindingsAt(ruleId, i) = IF Reportable(ruleId, i) THEN 1 ELSE 0

\* a line on which SEC002 matches twice gives one finding, and a line on
\* which SEC007 matches and its filter vetoes gives none
C15_Witness ==
  /\ Returned("analyzeFile")
  /\ call.filepath = PathJs
  /\ call.minSeverity = "info"
  /\ CallLines = <<LEvalTwice, LPlainRandom>>
  /\ FindingsAt("SEC002", 1) = 1
  /\ FindingsAt("SEC007", 2) = 0
  /\ \E s \in 0..1 : PatternEnd("SEC007", LPlainRandom, s) > 0

\* C18 as stated: after a call of analyzeFile, the retained scan position of
\* every rule's pattern is what it was before the call.
C18_RuleTableUnchanged ==
  Returned("analyzeFile") => lastIndex = before

\* C20: a minSeverity other than 'info', 'warning' and 'error' makes
\* analyzeFile return what the floor 'info' returns: rules of every severity
\* are applied, the value is not rejected and the default 'warning' is not
\* used.
C20_UnknownFloorIsInfo ==
  (Returned("analyzeFile") /\ call.minSeverity \notin {"info", "warning", "error"}) =>
    /\ ret = analyzeFile(call.filepath, call.content, "info", ZeroIndex).issues
    /\ \A ruleId \in LineRuleIds : \A i \in 1..Len(CallLines) :
         LET rule == RuleOf(ruleId)
             line == CallLines[i]
         IN (/\ detectLanguage(call.filepath) \in rule.languages \/ "*" \in rule.languages
             /\ ~ClaimedComment(line)
             /\ \E s \in 0..(Len(line) - 1) : PatternEnd(ruleId, line, s) > 0
             /\ (rule.hasContextFilter => ContextFilter(ruleId, line, call.filepath)))
            => HasFinding(ruleId, i)

\* the floor 'verbose': findings of an error rule, a warning rule and an
\* info rule
C20_Witness ==
  /\ Returned("analyzeFile")
  /\ call.minSeverity = "verbose"
  /\ \E i, j, k \in 1..Len(ret) :
       /\ ret[i].severity = "error"
       /\ ret[j].severity = "warning"
       /\ ret[k].severity = "info"

\* the lines of the section of app.js in the diff text of the call, from its
\* first hunk header on
HunkLines ==
  LET text == call.diffText
      head == CHOOSE k \in 1..Len(text) : text[k] = DHead
      ends == {k \in (head + 1)..Len(text) : Len(text[k]) > 0 /\ text[k][1] = "diff --git "}
      last == IF ends = {} THEN Len(text) ELSE Min(ends) - 1
  IN SubSeq(text, head + 5, last)

\* what a line of a hunk is, by its first character
Marker(line) ==
  IF line = <<>> THEN "none"
  ELSE CASE line[1] \in {"+", "++"} -> "+"
         [] line[1] \in {"-", "--"} -> "-"
         [] line[1] = " " -> " "
         [] line[1] \in {"@@ -1,2 +1,3 @@", "@@ -2,2 +2,3 @@", "@@ -5,2 +5,3 @@"} -> "@@"
         [] OTHER -> "none"

\* the text of a hunk line without its marker
Unmarked(line) ==
  CASE line[1] = "++" -> <<"+">> \o Tail(line)
    [] line[1] = "--" -> <<"-">> \o Tail(line)
    [] OTHER -> Tail(line)

\* the post-change line number of the hunk line k: the start of its hunk,
\* plus the added and context lines of the hunk before it
PostChangeLine(lines, start, k) ==
  LET headers == {j \in 1..(k - 1) : Marker(lines[j]) = "@@"}
      from == IF headers = {} THEN 0 ELSE CHOOSE j \in headers : \A i \in headers : i <= j
      begin == IF from = 0 THEN start
               ELSE CASE lines[from][1] = "@@ -1,2 +1,3 @@" -> 1
                      [] lines[from][1] = "@@ -2,2 +2,3 @@" -> 2
                      [] OTHER -> 5
  IN begin + Cardinality({j \in (from + 1)..(k - 1) : Marker(lines[j]) \in {"+", " "}})

\* the start of the first hunk of the section of app.js
FirstStart ==
  LET text == call.diffText
      head == CHOOSE k \in 1..Len(text) : text[k] = DHead
  IN IF text[head + 4][1] = "@@ -1,2 +1,3 @@" THEN 1 ELSE 2

\* the added lines of the hunks, as pairs of line number and text, and the
\* added and context lines
AddedLines ==
  {<<PostChangeLine(HunkLines, FirstStart, k), Unmarked(HunkLines[k])>> :
     k \in {j \in 1..Len(HunkLines) : Marker(HunkLines[j]) = "+"}}

KeptLines ==
  {<<PostChangeLine(HunkLines, FirstStart, k), Unmarked(HunkLines[k])>> :
     k \in {j \in 1..Len(HunkLines) : Marker(HunkLines[j]) \in {"+", " "}}}

\* C16 as stated: the changed-line list of a file section holds exactly the
\* post-change line numbers of the '+' lines of its hunks, the content at
\* each such number is the added line without its '+', and a '-' line
\* neither adds a changed line nor advances the line counter.
C16_ChangedLinesOfAddedLines ==
  Returned("parseDiff") =>
    /\ Len(ret) = 1
    /\ Range(ret[1].changedLines) = {p[1] : p \in AddedLines}
    /\ Len(ret[1].changedLines) = Cardinality(AddedLines)
    /\ \A p \in AddedLines :
         /\ p[1] <= Len(Split(ret[1].content))
         /\ Split(ret[1].content)[p[1]] = p[2]

\* C17 as stated: the content of a file consists only of the context lines
\* and the added lines of its hunks, each at its post-change line number
\* (lines between the hunks are empty); no removed line and no header line
\* of the diff is a line of the content.
C17_ContentOfKeptLines ==
  Returned("parseDiff") =>
    /\ Len(ret) = 1
    /\ \A n \in 1..Len(Split(ret[1].content)) :
         \/ Split(ret[1].content)[n] = <<>>
         \/ <<n, Split(ret[1].content)[n]>> \in KeptLines

InRun == call.op = "run"

\* the maximum that the max-comments input of the call configures: the
\* number it writes, and the default 20 when it is empty or writes none
ConfiguredMax ==
  LET m == call.maxComments
  IN CASE m = <<>> -> 20
       [] m = <<"0">> -> 0
       [] m = <<"1">> -> 1
       [] m = <<"2", "x">> -> 2
       [] m = <<"-", "1">> -> -1
       [] OTHER -> 20

\* C12 as stated: the review a run submits holds at most as many
\* line-anchored comments as max-comments configures, whatever the files,
\* the findings and the value of the input.
C12_AtMostMaxComments ==
  InRun => \A k \in 1..Len(ret.reviews) : Len(ret.reviews[k].comments) <= ConfiguredMax

\* the run has ended
RunEnded == InRun /\ pc = "returned"

\* C13: in a run on a pull-request event with a token, a rejected review is
\* followed by exactly one aggregate summary comment (one createComment
\* call, made from the catch block), and the rejection does not mark the run
\* failed: the run is marked failed only when the host rejects the aggregate
\* comment as well; an accepted review is followed by no aggregate comment;
\* no run submits more than one review or more than one aggregate comment.
C13_FallbackToOneComment ==
  InRun =>
    /\ Len(ret.reviews) <= 1
    /\ Len(ret.issueComments) <= 1
    /\ (ret.reviews # <<>> /\ ~ret.reviewRejected) => ret.issueComments = <<>>
    /\ (ret.reviewRejected /\ ret.issueComments = <<>>) => pc = "fallback"
    /\ (RunEnded /\ ret.reviewRejected) => Len(ret.issueComments) = 1
    /\ (ret.reviewRejected /\ ret.failed) => ret.commentRejected

\* a run whose review was rejected has posted its one aggregate comment and
\* has ended without being marked failed
C13_Witness ==
  /\ RunEnded
  /\ ret.reviewRejected
  /\ Len(ret.reviews) = 1
  /\ Len(ret.issueComments) = 1
  /\ ~ret.failed
  /\ ret.outputs

\* C14 as stated: every line-anchored comment of a submitted review is
\* anchored to a line that parseDiff recorded as a changed line of the
\* comment's file, whatever the diff.
C14_CommentsOnChangedLines ==
  InRun =>
    \A k \in 1..Len(ret.reviews) : \A n \in 1..Len(ret.reviews[k].comments) :
      LET comment == ret.reviews[k].comments[n]
          files == parseDiff(call.diffText)
      IN \E f \in 1..Len(files) :
           /\ files[f].filepath = comment.path
           /\ \E c \in 1..Len(files[f].changedLines) :
                files[f].changedLines[c] = comment.line

\* C19: no run submits a review with the event APPROVE: a submitted review
\* has comments, the total of the findings is > 0 and the event is COMMENT;
\* a run without findings, or with max-comments 0, posts the aggregate
\* summary comment only.
C19_NeverApprove ==
  InRun =>
    /\ \A k \in 1..Len(ret.reviews) :
         /\ ret.reviews[k].event = "COMMENT"
         /\ ret.reviews[k].comments # <<>>
         /\ ret.totalIssues > 0
    /\ (RunEnded /\ ret.outputs /\ (ret.totalIssues = 0 \/ call.maxComments = <<"0">>)) =>
         /\ ret.reviews = <<>>
         /\ Len(ret.issueComments) = 1

\* a run whose review was accepted: the review has a comment and the event
\* COMMENT, and no aggregate comment was posted
C19_Witness ==
  /\ RunEnded
  /\ ret.outputs
  /\ Len(ret.reviews) = 1
  /\ ret.reviews[1].event = "COMMENT"
  /\ Len(ret.reviews[1].comments) = 1
  /\ ret.issueComments = <<>>

====
